---- MODULE Spec2Model ----
(***************************************************************************)
(* A model of the rate-limited reverse proxy: the per-client request       *)
(* tracker (pkg/ratelimit RequestTracker), the per-client token bucket     *)
(* (golang.org/x/time/rate Limiter, created by RateLimiter.GetLimiter),    *)
(* the registry with its cleanup goroutine (pkg/ratelimit RateLimiter),    *)
(* and the dispatcher (pkg/proxy ReverseProxy.ServeHTTP).                  *)
(*                                                                         *)
(* Time is an integer count of clock ticks; one second is Second ticks.    *)
(* Durations are integers, as time.Duration is, so a division of           *)
(* durations truncates here as it does in the program.                     *)
(***************************************************************************)
EXTENDS Integers, Sequences, FiniteSets, TLC

\* ------------------------------------------------------------------ bounds

\* Clock resolution: the number of clock ticks in one second.
TicksPerSecond == 10

\* Number of concurrent ServeHTTP handlers (goroutines of net/http).
NThreads == 2

\* Number of requests the clients issue in one run of Spec.
MaxRequests == 3

\* Number of times the clock advances in one run of Spec.
MaxAdvances == 2

\* Number of requests the clients issue in one run of SpecSeq.
SeqRequests == 3

\* Number of times the clock advances in one run of SpecSeq.
SeqAdvances == 2

\* Number of times the clock advances in one run of SpecScenario.
ScenarioAdvances == 3

\* Number of Allow calls in one run of SpecGate.
MaxCalls == 4

\* Number of requests and of clock advances in one run of SpecRace.
RaceRequests == 3
RaceAdvances == 3

\* Number of requests in one run of SpecIdentity.
IdentRequests == 3

\* Number of requests and of clock advances in one run of SpecClose.
CloseRequests == 3
CloseAdvances == 2

\* Number of requests and of clock advances in one run of SpecLive.
LiveRequests == 3
LiveAdvances == 1

\* The default of RATE_LIMIT, the limit of the 12-request scenario.
DefaultRateLimit == 10

\* ------------------------------------------------------- program constants

Second == TicksPerSecond
\* time.Second as a time.Duration, which counts nanoseconds.
NsPerSecond == 1000000000
Minute == 60 * Second

Threads == 1 .. NThreads
\* The identity of the cleanup goroutine as a mutex holder (0 is "unlocked").
Sweeper == NThreads + 1

\* Client identities, as getClientIP returns them.
IPs == {"a", "b"}

\* The values of RATE_LIMIT the runs of Spec and SpecSeq are configured with.
RateLimits == {1, 2}

\* The values of RATE_LIMIT the runs of SpecGate are configured with.
GateLimits == {1, 2, 3, DefaultRateLimit}

\* The values of WEBHOOK_URL: unset, or some target.
WebhookURLs == {"", "http://hook"}

\* The values of a request's X-Forwarded-For and X-Real-IP headers, as
\* Header.Get returns them ("" when the header is absent).
HeaderValues == {""} \cup IPs

\* The values of a request's RemoteAddr, as net/http sets it: "host:port",
\* or "[host]:port" for an IPv6 host; an address is the sequence of its parts.
RemoteAddrs == {<<"a", ":", "80">>, <<"[", "b", "]", ":", "80">>}

\* The requests that arrive.
Requests == [xff : HeaderValues, xri : HeaderValues, remoteAddr : RemoteAddrs]

Min(a, b) == IF a <= b THEN a ELSE b
Max(a, b) == IF a >= b THEN a ELSE b

VARIABLES
    now,          \* the clock, time.Now()
    advances,     \* how many times the clock has advanced
    RateLimit,    \* config.RateLimit
    WebhookURL,   \* config.WebhookURL
    clients,      \* RateLimiter.clients : ip -> *rate.Limiter (0 = no entry)
    requests,     \* RateLimiter.requests : ip -> *RequestTracker (0 = no entry)
    mu,           \* RateLimiter.mu : its holder, 0 when unlocked
    rate,         \* RateLimiter.rate
    rateNs,       \* RateLimiter.rate as NewRateLimiter computes it, from
                  \* durations counted in nanoseconds
    cleanupTick,  \* RateLimiter.cleanupTick : the ticker and its channel C
    limiters,     \* the heap of rate.Limiter objects, by address
    trackers,     \* the heap of RequestTracker objects, by address
    pc,           \* each handler's position in ServeHTTP
    clientIP,     \* ServeHTTP's local clientIP
    limiter,      \* ServeHTTP's local limiter
    tracker,      \* ServeHTTP's local tracker
    currentRPS,   \* ServeHTTP's local currentRPS
    cpc,          \* the cleanup goroutine's position
    cnow,         \* cleanup's local now
    todo,         \* the keys cleanup's range loop has still to produce
    cur,          \* the key and tracker cleanup's loop body is at
    budget,       \* requests the clients have still to issue
    out,          \* what each handler has done for the request it is serving
    response,     \* the response the last step gave a caller, if it gave one
    observe,      \* which of the histories below this run keeps
    windows,      \* per ip, in the order of its TrackRequest calls, the
                  \* windowStart each call found and the one it left
    idents,       \* the requests that arrived, each with the identity it was
                  \* given and the tracker and limiter GetLimiter returned for it
    calls,        \* per tracker, the record of its TrackRequest calls
    gcalls,       \* per limiter, the record of its Allow calls
    admits,       \* per ip, the times at which its requests were forwarded
    served,       \* what the dispatcher decided for each request served so far
    lastSeen,     \* per ip, when its last request arrived and when a handler
                  \* last worked for it (-1: never)
    evictions,    \* the entries cleanup deleted, with how long each was idle
    gap           \* SpecGate: the fixed time between two Allow calls

cfgVars   == <<RateLimit, WebhookURL>>
rlVars    == <<clients, requests, mu, rate, rateNs, cleanupTick>>
heapVars  == <<limiters, trackers>>
hVars     == <<pc, clientIP, limiter, tracker, currentRPS>>
sweepVars == <<cpc, cnow, todo, cur>>
clockVars == <<now, advances>>
histVars  == <<observe, windows, idents, calls, gcalls, admits, served, lastSeen, evictions,
               gap>>
vars == <<cfgVars, rlVars, heapVars, hVars, sweepVars, clockVars, budget, out,
          response, histVars>>

\* ------------------------------------------- golang.org/x/time/rate.Limiter
\* A Limit is a number of events per second, kept here as the exact fraction
\* num/den; den = 0 is rate.Inf.

Inf == [num |-> 1, den |-> 0]

\* rate.Every(interval): one event per interval, Inf for interval <= 0.
Every(interval) ==
    IF interval <= 0 THEN Inf ELSE [num |-> Second, den |-> interval]

\* rate.Every on a time.Duration as the program holds it, a count of
\* nanoseconds: the Limit 1 / interval.Seconds().
EveryNs(interval) ==
    IF interval <= 0 THEN Inf ELSE [num |-> NsPerSecond, den |-> interval]

\* The limiter's tokens are kept in units of 1/(Second * den) token, so that
\* the tokens accrued over d ticks, d/Second * num/den, are the integer d * num.
OneToken(limit) == Second * limit.den
tokensFromDuration(limit, d) == d * limit.num

\* rate.NewLimiter(r, b): a bucket of capacity b that starts full.
NewLimiter(r, b) ==
    [limit |-> r, burst |-> b, tokens |-> b * OneToken(r), last |-> 0]

\* Limiter.Allow at time t: refill for the elapsed time up to the capacity,
\* then take one token if there is one.
Allow(lim, t) ==
    IF lim.limit.den = 0
    THEN [ok |-> TRUE, lim |-> lim]
    ELSE LET elapsed == Max(t - lim.last, 0)
             tokens  == Min(lim.burst * OneToken(lim.limit),
                            lim.tokens + tokensFromDuration(lim.limit, elapsed))
         IN IF tokens >= OneToken(lim.limit)
            THEN [ok  |-> TRUE,
                  lim |-> [lim EXCEPT !.tokens = tokens - OneToken(lim.limit),
                                      !.last = t]]
            ELSE [ok  |-> FALSE,
                  lim |-> [lim EXCEPT !.tokens = tokens, !.last = t]]

\* ------------------------------------------------- ratelimit.RequestTracker
\* Each object of the heaps also carries the key it was created for and
\* whether a map still holds it (ip, live): these are not fields of the
\* program, they only name the object in the properties below.

NewRequestTracker(t) ==
    [windowStart |-> t, currentCount |-> 0, mu |-> 0]

\* TrackRequest with the window kept open one tick too long.
TrackRequestLate(rt, t) ==
    LET reset == t - rt.windowStart > Second
        ws    == IF reset THEN t ELSE rt.windowStart
        n     == (IF reset THEN 0 ELSE rt.currentCount) + 1
    IN [rt  |-> [rt EXCEPT !.windowStart = ws, !.currentCount = n],
        ret |-> n]

\* TrackRequest's body at time t, under rt.mu: the tracker after the call and
\* the count returned.
TrackRequest(rt, t) ==
    LET reset == t - rt.windowStart >= Second
        ws    == IF reset THEN t ELSE rt.windowStart
        n     == (IF reset THEN 0 ELSE rt.currentCount) + 1
    IN [rt  |-> [rt EXCEPT !.windowStart = ws, !.currentCount = n],
        ret |-> n]

\* GetCurrentRPS at time t.
GetCurrentRPS(rt, t) ==
    IF t - rt.windowStart < Second THEN rt.currentCount ELSE 0

\* ---------------------------------------------------- ratelimit.RateLimiter

NoEntries == [ip \in IPs |-> 0]

\* NewRateLimiter(rps): the registry as constructed (the cleanup goroutine
\* starts waiting for the ticker's first tick, one minute from now). The
\* ticker's field late is not the program's: it tells whether the tick the
\* goroutine received last was received after Stop.
NewRateLimiter(rps) ==
    [clients     |-> NoEntries,
     requests    |-> NoEntries,
     rate        |-> Every(Second \div rps),
     rateNs      |-> EveryNs(NsPerSecond \div rps),
     rps         |-> rps,
     cleanupTick |-> [C |-> 0, next |-> Minute, stopped |-> FALSE, late |-> FALSE]]

\* The capacity GetLimiter gives a new limiter.
Burst == 1

\* A limiter created with no capacity, and one with twice the capacity.
CreateLimiterEmpty(r) == NewLimiter(r, Burst - 1)
CreateLimiterDouble(r) == NewLimiter(r, Burst + 1)

\* GetLimiter's rate.NewLimiter(rl.rate, 1).
CreateLimiter(r) == NewLimiter(r, Burst)

Named(obj, ip) == obj @@ [ip |-> ip, live |-> TRUE]

\* GetLimiter without its lookups: every call creates and inserts.
GetLimiterAlways(ip, t) ==
    [clients  |-> [clients EXCEPT ![ip] = Len(limiters) + 1],
     limiters |-> Append(limiters, Named(CreateLimiter(rate), ip)),
     requests |-> [requests EXCEPT ![ip] = Len(trackers) + 1],
     trackers |-> Append(trackers, Named(NewRequestTracker(t), ip)),
     limiter  |-> Len(limiters) + 1,
     tracker  |-> Len(trackers) + 1,
     lnew     |-> TRUE,
     tnew     |-> TRUE]

\* GetLimiter(ip)'s body at time t, under rl.mu: the maps and heaps after the
\* call, and the limiter and tracker returned.
GetLimiter(ip, t) ==
    LET lnew == clients[ip] = 0
        l    == IF lnew THEN Len(limiters) + 1 ELSE clients[ip]
        tnew == requests[ip] = 0
        k    == IF tnew THEN Len(trackers) + 1 ELSE requests[ip]
    IN [clients  |-> [clients EXCEPT ![ip] = l],
        limiters |-> IF lnew
                     THEN Append(limiters, Named(CreateLimiter(rate), ip))
                     ELSE limiters,
        requests |-> [requests EXCEPT ![ip] = k],
        trackers |-> IF tnew
                     THEN Append(trackers, Named(NewRequestTracker(t), ip))
                     ELSE trackers,
        limiter  |-> l,
        tracker  |-> k,
        lnew     |-> lnew,
        tnew     |-> tnew]

\* cleanup's test with a threshold one second too long.
StaleLate(rt, t) == t - rt.windowStart > Minute + Second

\* cleanup's test of one tracker, with the loop's now.
Stale(rt, t) == t - rt.windowStart > Minute

\* ------------------------------------------------- webhook.NotifyRateLimit
\* NotifyRateLimit without its test of the webhook URL: it always POSTs.
NotifyRateLimitAlways(url, expectedRPS, receivedRPS) ==
    <<[limit_expected_rps |-> expectedRPS,
       limit_exceeded_rps |-> receivedRPS]>>

\* What NotifyRateLimit can return: nil when the URL is unset; otherwise nil,
\* or the error of json.Marshal or of http.Post.
NotifyErrors(url) == IF url = "" THEN {"nil"} ELSE {"nil", "error"}

\* The POSTs NotifyRateLimit(expectedRPS, receivedRPS) makes.
NotifyRateLimit(url, expectedRPS, receivedRPS) ==
    IF url = ""
    THEN <<>>
    ELSE <<[limit_expected_rps |-> expectedRPS,
            limit_exceeded_rps |-> receivedRPS]>>

\* ------------------------------------------------- proxy.ReverseProxy.ServeHTTP
\* net.SplitHostPort(addr): the host of "host:port" or "[host]:port"; "" (with
\* an error, which getClientIP drops) when addr has no port or is malformed.
SplitHostPort(addr) ==
    LET colons == {i \in DOMAIN addr : addr[i] = ":"}
        host   == SubSeq(addr, 1, Len(addr) - 2)
    IN IF colons = {} \/ Len(addr) < 3 \/ addr[Len(addr) - 1] # ":"
       THEN ""
       ELSE IF Len(host) = 1 /\ host[1] \notin {"[", "]", ":"}
       THEN host[1]
       ELSE IF Len(host) = 3 /\ host[1] = "[" /\ host[3] = "]"
       THEN host[2]
       ELSE ""

\* getClientIP with the two headers tested in the other order.
getClientIPRealFirst(r) ==
    IF r.xri # "" THEN r.xri
    ELSE IF r.xff # "" THEN r.xff
    ELSE SplitHostPort(r.remoteAddr)

\* getClientIP(r): X-Forwarded-For, else X-Real-IP, else the host of RemoteAddr.
getClientIP(r) ==
    IF r.xff # "" THEN r.xff
    ELSE IF r.xri # "" THEN r.xri
    ELSE SplitHostPort(r.remoteAddr)

\* The test with the limit itself counted as exceeding it.
ExceedsLimitAt(rps, limit) == rps >= limit

\* The dispatcher's test of the tracked rate against the configured limit.
ExceedsLimit(rps, limit) == rps > limit

\* The arguments of the call with the two values in each other's place.
NotifyArgsSwapped(limit, rps) == [expectedRPS |-> rps, receivedRPS |-> limit]

\* The arguments ServeHTTP calls NotifyRateLimit with.
NotifyArgs(limit, rps) == [expectedRPS |-> limit, receivedRPS |-> rps]

\* The test of Allow's result dropped: nothing is rejected.
RejectsNever(ok) == FALSE

\* The dispatcher's test of what limiter.Allow() returned.
Rejects(ok) == ~ok

FreshOut ==
    [gateCalls |-> 0, allowed |-> FALSE, notifies |-> 0, posts |-> <<>>,
     waited |-> FALSE, args |-> <<>>, errs |-> <<>>]

\* No caller was answered by this step.
NoResponse == <<>>

\* What a caller sees when handler t ends its request with the given status
\* after the given number of forwards.
Served(t, status, forwards) ==
    [status    |-> status,
     ip        |-> clientIP[t],
     observed  |-> currentRPS[t],
     gateCalls |-> out[t].gateCalls,
     allowed   |-> out[t].allowed,
     notifies  |-> out[t].notifies,
     posts     |-> out[t].posts,
     args      |-> out[t].args,
     errs      |-> out[t].errs,
     forwards  |-> forwards,
     backend   |-> ""]

\* The requests that can arrive in a run: all of them when the run records
\* which request got which identity; otherwise the ones without headers, which
\* reach every identity (ServeHTTP keeps nothing of a request but its identity).
Arriving ==
    IF "idents" \in observe
    THEN Requests
    ELSE {r \in Requests : r.xff = "" /\ r.xri = ""}

\* A request of one of the clients ips arrives: ServeHTTP starts on handler t
\* and resolves the identity.
Arrive(t, ips) ==
    /\ pc[t] = "idle"
    /\ budget > 0
    /\ \E r \in Arriving :
          LET ip == getClientIP(r)
          IN
          /\ ip \in ips
          /\ clientIP' = [clientIP EXCEPT ![t] = ip]
          /\ idents' = IF "idents" \in observe
                        THEN Append(idents, [req |-> r, by |-> t, ip |-> ip,
                                             tracker |-> 0, limiter |-> 0])
                        ELSE idents
          /\ lastSeen' = IF "seen" \in observe
                          THEN [lastSeen EXCEPT ![ip] = [arrived |-> now, handled |-> now]]
                          ELSE lastSeen
    /\ budget' = budget - 1
    /\ pc' = [pc EXCEPT ![t] = "GetLimiter"]
    /\ response' = NoResponse
    /\ UNCHANGED <<cfgVars, rlVars, heapVars, limiter, tracker, currentRPS>>
    /\ UNCHANGED <<sweepVars, clockVars, out>>
    /\ UNCHANGED <<observe, windows, calls, gcalls, admits, served, evictions, gap>>

\* GetLimiter: rl.mu.Lock().
GetLimiterLock(t) ==
    /\ pc[t] = "GetLimiter"
    /\ mu = 0
    /\ mu' = t
    /\ pc' = [pc EXCEPT ![t] = "GetLimiterLocked"]
    /\ out' = [out EXCEPT ![t].waited =
                  \E u \in Threads \ {t} :
                      pc[u] = "GetLimiter" /\ clientIP[u] = clientIP[t]]
    /\ response' = NoResponse
    /\ UNCHANGED <<cfgVars, clients, requests, rate, rateNs, cleanupTick, heapVars>>
    /\ UNCHANGED <<clientIP, limiter, tracker, currentRPS, sweepVars, clockVars>>
    /\ UNCHANGED <<budget, histVars>>

\* GetLimiter: the body, and the deferred rl.mu.Unlock().
GetLimiterReturn(t) ==
    /\ pc[t] = "GetLimiterLocked"
    /\ LET ip == clientIP[t]
           r  == GetLimiter(ip, now)
       IN /\ clients' = r.clients
          /\ requests' = r.requests
          /\ limiters' = r.limiters
          /\ trackers' = r.trackers
          /\ limiter' = [limiter EXCEPT ![t] = r.limiter]
          /\ tracker' = [tracker EXCEPT ![t] = r.tracker]
          /\ calls' = IF r.tnew THEN Append(calls, <<>>) ELSE calls
          /\ gcalls' = IF r.lnew THEN Append(gcalls, <<>>) ELSE gcalls
          /\ idents' = [i \in DOMAIN idents |->
                           IF idents[i].by = t /\ idents[i].tracker = 0
                           THEN [idents[i] EXCEPT !.tracker = r.tracker,
                                                  !.limiter = r.limiter]
                           ELSE idents[i]]
          /\ lastSeen' = IF "seen" \in observe
                          THEN [lastSeen EXCEPT ![ip].handled = now]
                          ELSE lastSeen
    /\ mu' = 0
    /\ pc' = [pc EXCEPT ![t] = "TrackRequest"]
    /\ response' = NoResponse
    /\ UNCHANGED <<cfgVars, rate, rateNs, cleanupTick, clientIP, currentRPS>>
    /\ UNCHANGED <<sweepVars, clockVars, budget, out>>
    /\ UNCHANGED <<observe, windows, admits, served, evictions, gap>>

\* TrackRequest: rt.mu.Lock().
TrackRequestLock(t) ==
    /\ pc[t] = "TrackRequest"
    /\ trackers[tracker[t]].mu = 0
    /\ trackers' = [trackers EXCEPT ![tracker[t]].mu = t]
    /\ pc' = [pc EXCEPT ![t] = "TrackRequestLocked"]
    /\ response' = NoResponse
    /\ UNCHANGED <<cfgVars, rlVars, limiters, clientIP, limiter, tracker, currentRPS>>
    /\ UNCHANGED <<sweepVars, clockVars, budget, out, histVars>>

\* TrackRequest: the body and the deferred rt.mu.Unlock(); then ServeHTTP's
\* test of the count it returned.
TrackRequestReturn(t) ==
    /\ pc[t] = "TrackRequestLocked"
    /\ LET k  == tracker[t]
           r  == TrackRequest(trackers[k], now)
       IN /\ trackers' = [trackers EXCEPT ![k] = [r.rt EXCEPT !.mu = 0]]
          /\ currentRPS' = [currentRPS EXCEPT ![t] = r.ret]
          /\ calls' = IF "calls" \in observe
                      THEN [calls EXCEPT ![k] =
                               Append(@, [at     |-> now,
                                          prevWs |-> trackers[k].windowStart,
                                          ws     |-> r.rt.windowStart,
                                          ret    |-> r.ret])]
                      ELSE calls
          /\ pc' = [pc EXCEPT ![t] =
                       IF ExceedsLimit(r.ret, RateLimit) THEN "Allow" ELSE "Forward"]
    /\ lastSeen' = IF "seen" \in observe
                    THEN [lastSeen EXCEPT ![clientIP[t]].handled = now]
                    ELSE lastSeen
    /\ windows' = IF "windows" \in observe
                   THEN [windows EXCEPT ![clientIP[t]] =
                            Append(@, [tracker |-> tracker[t],
                                       found   |-> trackers[tracker[t]].windowStart,
                                       left    |-> TrackRequest(trackers[tracker[t]],
                                                                now).rt.windowStart])]
                   ELSE windows
    /\ response' = NoResponse
    /\ UNCHANGED <<cfgVars, rlVars, limiters, clientIP, limiter, tracker>>
    /\ UNCHANGED <<sweepVars, clockVars, budget, out>>
    /\ UNCHANGED <<observe, idents, gcalls, admits, served, evictions, gap>>

\* limiter.Allow(), and ServeHTTP's branch on its result.
AllowCall(t) ==
    /\ pc[t] = "Allow"
    /\ LET l == limiter[t]
           r == Allow(limiters[l], now)
       IN /\ limiters' = [limiters EXCEPT ![l] = r.lim]
          /\ gcalls' = IF "gcalls" \in observe
                       THEN [gcalls EXCEPT ![l] = Append(@, [at |-> now, ok |-> r.ok])]
                       ELSE gcalls
          /\ out' = [out EXCEPT ![t].gateCalls = @ + 1, ![t].allowed = r.ok]
          /\ pc' = [pc EXCEPT ![t] = IF Rejects(r.ok) THEN "Notify" ELSE "Forward"]
    /\ response' = NoResponse
    /\ UNCHANGED <<cfgVars, rlVars, trackers, clientIP, limiter, tracker, currentRPS>>
    /\ UNCHANGED <<sweepVars, clockVars, budget>>
    /\ UNCHANGED <<observe, windows, idents, calls, admits, served, lastSeen, evictions, gap>>

\* The rejection path: notifier.NotifyRateLimit(config.RateLimit, currentRPS).
Notify(t) ==
    /\ pc[t] = "Notify"
    /\ \E err \in NotifyErrors(WebhookURL) :
          LET a == NotifyArgs(RateLimit, currentRPS[t])
          IN out' = [out EXCEPT
                        ![t].notifies = @ + 1,
                        ![t].args = Append(@, a),
                        ![t].errs = Append(@, err),
                        ![t].posts = @ \o NotifyRateLimit(WebhookURL, a.expectedRPS,
                                                          a.receivedRPS)]
    /\ pc' = [pc EXCEPT ![t] = "Reject"]
    /\ response' = NoResponse
    /\ UNCHANGED <<cfgVars, rlVars, heapVars, clientIP, limiter, tracker, currentRPS>>
    /\ UNCHANGED <<sweepVars, clockVars, budget, histVars>>

\* What the dispatcher decided for a request, whatever the backend answered.
Decision(r) ==
    [observed  |-> r.observed,
     gateCalls |-> r.gateCalls,
     allowed   |-> r.allowed,
     posts     |-> r.posts,
     forwards  |-> r.forwards,
     rejected  |-> r.status = "429"]

\* ServeHTTP returns: its locals are gone, and the caller has its response.
Return(t, r) ==
    /\ pc' = [pc EXCEPT ![t] = "idle"]
    /\ clientIP' = [clientIP EXCEPT ![t] = ""]
    /\ limiter' = [limiter EXCEPT ![t] = 0]
    /\ tracker' = [tracker EXCEPT ![t] = 0]
    /\ currentRPS' = [currentRPS EXCEPT ![t] = 0]
    /\ out' = [out EXCEPT ![t] = FreshOut]
    /\ response' = <<r>>
    /\ served' = IF "served" \in observe THEN Append(served, Decision(r))
                                         ELSE served

\* The rejection path: http.Error(w, "Too Many Requests", 429) and return.
Reject(t) ==
    /\ pc[t] = "Reject"
    /\ Return(t, Served(t, "429", 0))
    /\ UNCHANGED <<cfgVars, rlVars, heapVars, sweepVars, clockVars, budget>>
    /\ UNCHANGED <<observe, windows, idents, calls, gcalls, admits, lastSeen, evictions, gap>>

\* errorHandler returning in every case without writing a response.
errorHandlerSilent(err) == "none"

\* errorHandler: what the caller gets when the forward ends with err.
errorHandler(err) == IF err = "canceled" THEN "none" ELSE "503"

\* How a forward can end: the backend answers, the per-request timeout
\* expires, the connection fails, or the caller goes away.
BackendResults == {"ok", "timeout", "error", "canceled"}

\* The admission path: rp.proxy.ServeHTTP, one forward to the backend.
Forward(t) ==
    /\ pc[t] = "Forward"
    /\ \E res \in BackendResults :
          Return(t, [Served(t, IF res = "ok" THEN "200" ELSE errorHandler(res), 1)
                        EXCEPT !.backend = res])
    /\ admits' = IF "admits" \in observe
                 THEN [admits EXCEPT ![clientIP[t]] = Append(@, now)]
                 ELSE admits
    /\ UNCHANGED <<cfgVars, rlVars, heapVars, sweepVars, clockVars, budget>>
    /\ UNCHANGED <<observe, windows, idents, calls, gcalls, lastSeen, evictions, gap>>

ServeHTTP(t, ips) ==
    \/ Arrive(t, ips)
    \/ GetLimiterLock(t)
    \/ GetLimiterReturn(t)
    \/ TrackRequestLock(t)
    \/ TrackRequestReturn(t)
    \/ AllowCall(t)
    \/ Notify(t)
    \/ Reject(t)
    \/ Forward(t)

\* ------------------------------------------------------- RateLimiter.cleanup
\* A tick is received from cleanupTick.C; rl.mu.Lock(); now := time.Now(); the
\* range loop starts over the keys of rl.requests.
SweepLock ==
    /\ cpc = "wait"
    /\ cleanupTick.C = 1
    /\ mu = 0
    /\ cleanupTick' = [cleanupTick EXCEPT !.C = 0, !.late = cleanupTick.stopped]
    /\ mu' = Sweeper
    /\ cnow' = now
    /\ todo' = {ip \in IPs : requests[ip] # 0}
    /\ cpc' = "range"
    /\ response' = NoResponse
    /\ UNCHANGED <<cfgVars, clients, requests, rate, rateNs, heapVars, hVars, cur>>
    /\ UNCHANGED <<clockVars, budget, out, histVars>>

\* The loop produces a key, in no particular order: tracker.mu.Lock().
SweepTrackerLock ==
    /\ cpc = "range"
    /\ \E ip \in todo :
          LET k == requests[ip]
          IN /\ trackers[k].mu = 0
             /\ trackers' = [trackers EXCEPT ![k].mu = Sweeper]
             /\ cur' = [ip |-> ip, tracker |-> k]
    /\ cpc' = "body"
    /\ response' = NoResponse
    /\ UNCHANGED <<cfgVars, rlVars, limiters, hVars, cnow, todo>>
    /\ UNCHANGED <<clockVars, budget, out, histVars>>

\* delete(m, ip) on a map of the heap objs: the entry is gone.
Delete(m, objs, ip) ==
    [m    |-> [m EXCEPT ![ip] = 0],
     objs |-> IF m[ip] = 0 THEN objs ELSE [objs EXCEPT ![m[ip]].live = FALSE]]

\* The deletion with delete(rl.clients, ip) left out.
EvictTrackerOnly(ip) ==
    LET dr == Delete(requests, trackers, ip)
    IN [requests |-> dr.m, trackers |-> dr.objs,
        clients  |-> clients, limiters |-> limiters]

\* The maps and heaps after delete(rl.requests, ip); delete(rl.clients, ip).
Evict(ip) ==
    LET dr == Delete(requests, trackers, ip)
        dc == Delete(clients, limiters, ip)
    IN [requests |-> dr.m, trackers |-> dr.objs,
        clients  |-> dc.m, limiters |-> dc.objs]

\* The loop body: delete both entries of a stale tracker; tracker.mu.Unlock().
SweepTrackerCheck ==
    /\ cpc = "body"
    /\ LET ip    == cur.ip
           k     == cur.tracker
           stale == Stale(trackers[k], cnow)
           e     == Evict(ip)
       IN /\ requests' = IF stale THEN e.requests ELSE requests
          /\ clients' = IF stale THEN e.clients ELSE clients
          /\ limiters' = IF stale THEN e.limiters ELSE limiters
          /\ trackers' = [(IF stale THEN e.trackers ELSE trackers) EXCEPT ![k].mu = 0]
          /\ evictions' = IF stale /\ "seen" \in observe
                          THEN evictions \cup
                                   {[ip |-> ip, at |-> now, arrived |-> lastSeen[ip].arrived,
                                     closed |-> cleanupTick.late]}
                          ELSE evictions
          /\ todo' = todo \ {ip}
    /\ cpc' = "range"
    /\ cur' = [ip |-> "", tracker |-> 0]
    /\ response' = NoResponse
    /\ UNCHANGED <<cfgVars, mu, rate, rateNs, cleanupTick, hVars, cnow>>
    /\ UNCHANGED <<clockVars, budget, out>>
    /\ UNCHANGED <<observe, windows, idents, calls, gcalls, admits, served, lastSeen, gap>>

\* The end of the loop with rl.mu.Unlock() left out.
SweepUnlockMissing ==
    /\ cpc = "range"
    /\ todo = {}
    /\ cpc' = "wait"
    /\ response' = NoResponse
    /\ UNCHANGED <<cfgVars, rlVars, heapVars, hVars>>
    /\ UNCHANGED <<cnow, todo, cur, clockVars, budget, out, histVars>>

\* The loop is over: rl.mu.Unlock(), and back to waiting for a tick.
SweepUnlock ==
    /\ cpc = "range"
    /\ todo = {}
    /\ mu' = 0
    /\ cpc' = "wait"
    /\ response' = NoResponse
    /\ UNCHANGED <<cfgVars, clients, requests, rate, rateNs, cleanupTick, heapVars, hVars>>
    /\ UNCHANGED <<cnow, todo, cur, clockVars, budget, out, histVars>>

cleanup == SweepLock \/ SweepTrackerLock \/ SweepTrackerCheck \/ SweepUnlock

\* The ticker's period has elapsed: a tick is put in the channel C, whose
\* buffer holds one tick (a tick that finds it full is dropped).
TickerFire ==
    /\ ~cleanupTick.stopped
    /\ now >= cleanupTick.next
    /\ cleanupTick' = [cleanupTick EXCEPT !.C = 1, !.next = @ + Minute]
    /\ response' = NoResponse
    /\ UNCHANGED <<cfgVars, clients, requests, mu, rate, rateNs, heapVars, hVars>>
    /\ UNCHANGED <<sweepVars, clockVars, budget, out, histVars>>

\* RateLimiter.Close: cleanupTick.Stop(). The ticker sends no more ticks; the
\* channel is not closed, and a tick already in its buffer stays there (the
\* image is built with Go 1.21).
Close ==
    /\ ~cleanupTick.stopped
    /\ cleanupTick' = [cleanupTick EXCEPT !.stopped = TRUE]
    /\ response' = NoResponse
    /\ UNCHANGED <<cfgVars, clients, requests, mu, rate, rateNs, heapVars, hVars>>
    /\ UNCHANGED <<sweepVars, clockVars, budget, out, histVars>>

\* ------------------------------------------------------------------ the clock
\* The amounts of time that pass at once under concurrent requests: a
\* tracker's window and the staleness threshold.
CoarseDelays == {Second, Minute}

\* The amounts that lead to the edges of the gate's refill interval, of the
\* tracker's window and of the staleness threshold.
FineDelays ==
    {d \in {1, rate.den - 1, Second - 1, Minute} : d >= 1}

Tick(delays, max) ==
    /\ advances < max
    /\ \E d \in delays : now' = now + d
    /\ advances' = advances + 1
    /\ response' = NoResponse
    /\ UNCHANGED <<cfgVars, rlVars, heapVars, hVars, sweepVars, budget, out, histVars>>

\* ------------------------------------------------------------ specification

InitWith(limits, urls, n, obs, gaps) ==
    /\ now = 0
    /\ advances = 0
    /\ RateLimit \in limits
    /\ WebhookURL \in urls
    /\ LET rl == NewRateLimiter(RateLimit)
       IN /\ clients = rl.clients
          /\ requests = rl.requests
          /\ rate = rl.rate
          /\ rateNs = rl.rateNs
          /\ cleanupTick = rl.cleanupTick
    /\ mu = 0
    /\ limiters = <<>>
    /\ trackers = <<>>
    /\ pc = [t \in Threads |-> "idle"]
    /\ clientIP = [t \in Threads |-> ""]
    /\ limiter = [t \in Threads |-> 0]
    /\ tracker = [t \in Threads |-> 0]
    /\ currentRPS = [t \in Threads |-> 0]
    /\ cpc = "wait"
    /\ cnow = 0
    /\ todo = {}
    /\ cur = [ip |-> "", tracker |-> 0]
    /\ budget = n
    /\ out = [t \in Threads |-> FreshOut]
    /\ response = NoResponse
    /\ observe = obs
    /\ idents = <<>>
    /\ windows = [ip \in IPs |-> <<>>]
    /\ calls = <<>>
    /\ gcalls = <<>>
    /\ admits = [ip \in IPs |-> <<>>]
    /\ served = <<>>
    /\ lastSeen = [ip \in IPs |-> [arrived |-> 0 - 1, handled |-> 0 - 1]]
    /\ evictions = {}
    /\ gap \in gaps

\* The proxy under concurrent requests: NThreads handlers, the cleanup
\* goroutine, the ticker and the clock.
Init == InitWith(RateLimits, {"http://hook"}, MaxRequests, {}, {0})

Next ==
    \/ \E t \in Threads : ServeHTTP(t, IPs)
    \/ cleanup
    \/ TickerFire
    \/ Tick(CoarseDelays, MaxAdvances)

Spec == Init /\ [][Next]_vars

\* The proxy under the requests of one connection, served one after the
\* other, with the histories kept and the clock at its finest.
InitSeq ==
    InitWith(RateLimits, WebhookURLs, SeqRequests, {"calls", "admits", "seen"}, {0})

NextSeq ==
    \/ ServeHTTP(1, IPs)
    \/ cleanup
    \/ TickerFire
    \/ Tick(FineDelays, SeqAdvances)

SpecSeq == InitSeq /\ [][NextSeq]_vars

\* The scenario of one client that issues DefaultRateLimit + 2 requests, one
\* after the other, to a proxy configured with the default limit.
InitScenario ==
    InitWith({DefaultRateLimit}, {"http://hook"}, DefaultRateLimit + 2,
             {"calls", "gcalls", "served"}, {0})

NextScenario ==
    \/ ServeHTTP(1, {"a"})
    \/ Tick({1}, ScenarioAdvances)

SpecScenario == InitScenario /\ [][NextScenario]_vars

\* One limiter, as GetLimiter creates it, and Allow called on it every gap
\* ticks, the first time when it is created.
GateCall ==
    /\ pc[1] = "TrackRequest"
    /\ LET l == limiter[1]
           t == IF gcalls[l] = <<>> THEN now ELSE now + gap
           r == Allow(limiters[l], t)
       IN /\ Len(gcalls[l]) < MaxCalls
          /\ now' = t
          /\ limiters' = [limiters EXCEPT ![l] = r.lim]
          /\ gcalls' = [gcalls EXCEPT ![l] = Append(@, [at |-> t, ok |-> r.ok])]
    /\ response' = NoResponse
    /\ UNCHANGED <<cfgVars, rlVars, trackers, hVars, sweepVars, advances, budget, out>>
    /\ UNCHANGED <<observe, windows, idents, calls, admits, served, lastSeen, evictions, gap>>

InitGate == InitWith(GateLimits, {"http://hook"}, 1, {"gcalls"}, 0 .. Second + 1)

NextGate ==
    \/ Arrive(1, {"a"})
    \/ GetLimiterLock(1)
    \/ GetLimiterReturn(1)
    \/ GateCall

SpecGate == InitGate /\ [][NextGate]_vars

\* The proxy under requests with every combination of the two headers and
\* the peer address, served one after the other.
InitIdentity ==
    InitWith(RateLimits, {"http://hook"}, IdentRequests, {"idents"}, {0})

NextIdentity == ServeHTTP(1, IPs)

SpecIdentity == InitIdentity /\ [][NextIdentity]_vars

\* One client, limited to one request per second, whose requests are handled
\* concurrently while the sweep may evict it: the clock moves by one tick and
\* by the staleness threshold.
InitRace == InitWith({1}, {"http://hook"}, RaceRequests, {"windows"}, {0})

NextRace ==
    \/ \E t \in Threads : ServeHTTP(t, {"a"})
    \/ cleanup
    \/ TickerFire
    \/ Tick({1, Minute}, RaceAdvances)

SpecRace == InitRace /\ [][NextRace]_vars

\* The proxy shutting down: requests, the cleanup goroutine, the ticker, the
\* clock, and Close called at any moment.
InitClose == InitWith({1}, {"http://hook"}, CloseRequests, {"seen"}, {0})

NextClose ==
    \/ ServeHTTP(1, IPs)
    \/ cleanup
    \/ TickerFire
    \/ Close
    \/ Tick(CoarseDelays, CloseAdvances)

SpecClose == InitClose /\ [][NextClose]_vars

\* The proxy under concurrent requests with its goroutines scheduled fairly.
\* A goroutine whose next step stays possible takes it (the Go scheduler is
\* preemptive, and a goroutine blocked in Lock on a sync.Mutex that stays
\* free is woken up). This asks less of sync.Mutex than it gives: a waiter
\* that fails to get the mutex for 1ms puts it in starvation mode, where
\* Unlock hands it to the waiter at the front of the queue. The arrival of
\* requests and the passage of time are not the program's and are under no
\* fairness condition.
InitLive == InitWith({1}, {"http://hook"}, LiveRequests, {}, {0})

NextLive ==
    \/ \E t \in Threads : ServeHTTP(t, IPs)
    \/ cleanup
    \/ TickerFire
    \/ Tick({Minute + 1}, LiveAdvances)

HandlerFair(t) ==
    /\ WF_vars(GetLimiterLock(t))
    /\ WF_vars(GetLimiterReturn(t))
    /\ WF_vars(TrackRequestLock(t))
    /\ WF_vars(TrackRequestReturn(t))
    /\ WF_vars(AllowCall(t))
    /\ WF_vars(Notify(t))
    /\ WF_vars(Reject(t))
    /\ WF_vars(Forward(t))

cleanupFair ==
    /\ WF_vars(SweepLock)
    /\ WF_vars(SweepTrackerLock)
    /\ WF_vars(SweepTrackerCheck)
    /\ WF_vars(SweepUnlock)

SpecLive ==
    /\ InitLive
    /\ [][NextLive]_vars
    /\ \A t \in Threads : HandlerFair(t)
    /\ cleanupFair

\* ------------------------------------------------------------------ properties

\* The positions of ServeHTTP at which GetLimiter has returned.
Past == {"TrackRequest", "TrackRequestLocked", "Allow", "Notify", "Reject", "Forward"}

\* C1: for one tracker, a TrackRequest call made less than one second after
\* the tracker's windowStart leaves windowStart alone and returns the number
\* of calls made so far in that window, itself included (the i-th returns i);
\* a call made one second or more after windowStart sets windowStart to the
\* time of the call and returns 1.
C1_TrackRequestCounts ==
    \A k \in DOMAIN calls : \A i \in DOMAIN calls[k] :
        LET e == calls[k][i]
        IN IF e.at - e.prevWs < Second
           THEN /\ e.ws = e.prevWs
                /\ e.ret = Cardinality({j \in 1 .. i : calls[k][j].ws = e.ws})
           ELSE /\ e.ws = e.at
                /\ e.ret = 1

\* A tracker whose second call fell in the window of the first and returned
\* 2, and whose third came exactly one second after windowStart and returned 1.
C1_Witness ==
    \E k \in DOMAIN calls :
        /\ Len(calls[k]) >= 3
        /\ calls[k][2].ws = calls[k][1].ws
        /\ calls[k][2].ret = 2
        /\ calls[k][3].at - calls[k][3].prevWs = Second
        /\ calls[k][3].ret = 1

\* C2 (state part): a request whose observed count is at most the limit is
\* forwarded, and the gate is not called for it: it never stands at Allow or
\* on the rejection path, and it ends forwarded once with no Allow call.
C2_BelowLimitState ==
    /\ \A i \in DOMAIN response :
          response[i].observed <= RateLimit =>
              /\ response[i].forwards = 1
              /\ response[i].gateCalls = 0
              /\ response[i].status # "429"
    /\ \A t \in Threads :
          /\ pc[t] \in {"Allow", "Notify", "Reject"} => currentRPS[t] > RateLimit
          /\ pc[t] = "Forward" /\ currentRPS[t] <= RateLimit => out[t].gateCalls = 0

\* C2 (frame part): a step changes the tokens or the refill time of a limiter
\* only if it is the Allow call of a request whose observed count is above
\* the limit.
C2_BelowLimitFrame ==
    \A l \in DOMAIN limiters :
        (limiters'[l].tokens # limiters[l].tokens \/ limiters'[l].last # limiters[l].last)
        => \E t \in Threads :
               /\ pc[t] = "Allow"
               /\ pc'[t] # "Allow"
               /\ limiter[t] = l
               /\ currentRPS[t] > RateLimit

\* C2: every request whose observed count is at most the configured limit is
\* admitted without the gate being consulted, and leaves its client's token
\* bucket as it was.
C2_BelowLimitBypassesGate == []C2_BelowLimitState /\ [][C2_BelowLimitFrame]_vars

\* A request that observed exactly the limit was forwarded, its client's
\* limiter still full.
C2_Witness ==
    \E i \in DOMAIN response :
        /\ response[i].observed = RateLimit
        /\ response[i].forwards = 1
        /\ response[i].gateCalls = 0
        /\ clients[response[i].ip] # 0
        /\ limiters[clients[response[i].ip]].tokens = Burst * OneToken(rate)

\* C3: a request whose observed count exceeds the limit has Allow called
\* exactly once; it is forwarded if and only if Allow returned true; when
\* Allow returned false the caller gets 429 and nothing is forwarded.
C3_AboveLimitAsksGate ==
    /\ \A i \in DOMAIN response :
          response[i].observed > RateLimit =>
              /\ response[i].gateCalls = 1
              /\ (response[i].forwards = 1) = response[i].allowed
              /\ (response[i].status = "429") = ~response[i].allowed
              /\ ~response[i].allowed => response[i].forwards = 0
    /\ \A t \in Threads :
          /\ pc[t] = "Forward" /\ currentRPS[t] > RateLimit =>
                out[t].gateCalls = 1 /\ out[t].allowed
          /\ pc[t] \in {"Notify", "Reject"} =>
                out[t].gateCalls = 1 /\ ~out[t].allowed

\* A request above the limit that Allow refused got 429.
C3_Witness ==
    \E i \in DOMAIN response :
        /\ response[i].observed > RateLimit
        /\ response[i].gateCalls = 1
        /\ ~response[i].allowed
        /\ response[i].status = "429"
        /\ response[i].forwards = 0

\* The first n calls of the scenario's tracker fell in the window the tracker
\* was created with.
OneWindow(n) ==
    \A j \in 1 .. n : calls[1][j].ws = calls[1][1].prevWs

\* The scenario's second Allow call came less than one refill interval after
\* the first.
Immediate ==
    /\ Len(gcalls[1]) >= 2
    /\ (gcalls[1][2].at - gcalls[1][1].at) * rate.num < Second * rate.den

\* C4: with the limit L = 10 and an unseen client whose L + 2 requests, one
\* after the other, fall in one tracker window: requests 1 to L are forwarded
\* without an Allow call, request L + 1 (observed L + 1) is forwarded after
\* one Allow call that returned true, and request L + 2, when it follows
\* request L + 1 at once, is rejected and POSTs one notification with
\* expected L and exceeded L + 2; no other request POSTs one.
C4_TwelveRequests ==
    \A i \in DOMAIN served :
        OneWindow(i) =>
            /\ served[i].observed = i
            /\ i <= RateLimit =>
                  /\ served[i].gateCalls = 0
                  /\ served[i].forwards = 1
                  /\ ~served[i].rejected
                  /\ served[i].posts = <<>>
            /\ i = RateLimit + 1 =>
                  /\ served[i].gateCalls = 1
                  /\ served[i].allowed
                  /\ served[i].forwards = 1
                  /\ ~served[i].rejected
                  /\ served[i].posts = <<>>
            /\ i = RateLimit + 2 /\ Immediate =>
                  /\ served[i].gateCalls = 1
                  /\ ~served[i].allowed
                  /\ served[i].forwards = 0
                  /\ served[i].rejected
                  /\ served[i].posts = <<[limit_expected_rps |-> RateLimit,
                                          limit_exceeded_rps |-> RateLimit + 2]>>

\* All L + 2 requests were served in one window, the last at once after the
\* one before it, and the last was rejected.
C4_Witness ==
    /\ Len(served) = DefaultRateLimit + 2
    /\ OneWindow(DefaultRateLimit + 2)
    /\ Immediate
    /\ served[DefaultRateLimit + 2].rejected
    /\ now > 0

\* C5: for every client and every interval of one second, the number of the
\* client's requests forwarded in the interval is at most the configured limit.
C5_AdmitsAtMostLimit ==
    \A ip \in IPs : \A i \in DOMAIN admits[ip] :
        Cardinality({j \in DOMAIN admits[ip] :
                        /\ admits[ip][j] >= admits[ip][i]
                        /\ admits[ip][j] < admits[ip][i] + Second}) <= RateLimit

LiveTrackers(ip) == {k \in DOMAIN trackers : trackers[k].ip = ip /\ trackers[k].live}
LiveLimiters(ip) == {l \in DOMAIN limiters : limiters[l].ip = ip /\ limiters[l].live}

\* C6: however many GetLimiter calls for one identity run together, at most
\* one tracker and one limiter created for the identity are in the maps (for
\* an identity never deleted: at most one of each was created), every call
\* that has returned holds a tracker and a limiter of its identity, and the
\* calls that hold objects still in the maps hold the same ones.
C6_OnePairPerIdentity ==
    /\ \A ip \in IPs :
          /\ Cardinality(LiveTrackers(ip)) <= 1
          /\ Cardinality(LiveLimiters(ip)) <= 1
          /\ requests[ip] # 0 => requests[ip] \in LiveTrackers(ip)
          /\ clients[ip] # 0 => clients[ip] \in LiveLimiters(ip)
    /\ \A t \in Threads :
          pc[t] \in Past =>
              /\ tracker[t] \in DOMAIN trackers
              /\ limiter[t] \in DOMAIN limiters
              /\ trackers[tracker[t]].ip = clientIP[t]
              /\ limiters[limiter[t]].ip = clientIP[t]
    /\ \A t, u \in Threads :
          (pc[t] \in Past /\ pc[u] \in Past /\ clientIP[t] = clientIP[u]) =>
              /\ trackers[tracker[t]].live /\ trackers[tracker[u]].live
                    => tracker[t] = tracker[u]
              /\ limiters[limiter[t]].live /\ limiters[limiter[u]].live
                    => limiter[t] = limiter[u]

\* The first two requests, of one identity, called GetLimiter together (one
\* took rl.mu while the other was waiting for it), and both calls returned
\* the only tracker and the only limiter ever created for the identity.
C6_Witness ==
    \E t, u \in Threads :
        /\ t # u
        /\ budget = MaxRequests - 2
        /\ pc[t] \in Past /\ pc[u] \in Past
        /\ clientIP[t] = clientIP[u]
        /\ out[t].waited
        /\ tracker[t] = tracker[u]
        /\ limiter[t] = limiter[u]
        /\ Len(trackers) = 1
        /\ Len(limiters) = 1

\* The sweep has tested every tracker it had to and is about to unlock rl.mu.
SweepDone == cpc = "range" /\ todo = {}

\* C7: a client whose last request was handled more than one minute before a
\* sweep began (a handler last worked for it more than one minute before the
\* sweep's now) has no tracker and no limiter in the maps when the sweep
\* ends.
C7_IdleClientEvicted ==
    SweepDone =>
        \A ip \in IPs :
            (lastSeen[ip].handled >= 0 /\ cnow - lastSeen[ip].handled > Minute) =>
                requests[ip] = 0 /\ clients[ip] = 0

\* A sweep ends having deleted the entries of a client that had been idle for
\* more than one minute when it began.
C7_Witness ==
    /\ SweepDone
    /\ \E e \in evictions :
          /\ lastSeen[e.ip].handled >= 0
          /\ cnow - lastSeen[e.ip].handled > Minute
          /\ requests[e.ip] = 0
          /\ clients[e.ip] = 0

\* C8: a sweep never deletes the entry of a client whose last request
\* arrived one minute or less before the sweep tests the entry: whenever an
\* entry is deleted, the client's last request arrived more than one minute
\* earlier.
C8_ActiveClientKept ==
    \A e \in evictions : e.at - e.arrived > Minute

\* Allow is called every 1/limit seconds on limiter l.
ExactGap(l) ==
    /\ limiters[l].limit.den # 0
    /\ gap * limiters[l].limit.num = Second * limiters[l].limit.den

\* Allow is called more often than every 1/limit seconds on limiter l.
ShortGap(l) ==
    /\ limiters[l].limit.den # 0
    /\ gap * limiters[l].limit.num < Second * limiters[l].limit.den

\* C9: on a limiter that starts full, Allow called with exactly 1/limit
\* seconds between consecutive calls, limit being the limiter's refill rate,
\* returns true every time.
C9_AtRefillRateAlwaysAllowed ==
    \A l \in DOMAIN limiters :
        ExactGap(l) => \A i \in DOMAIN gcalls[l] : gcalls[l][i].ok

\* MaxCalls calls, one refill interval apart, all returned true.
C9_Witness ==
    \E l \in DOMAIN limiters :
        /\ ExactGap(l)
        /\ Len(gcalls[l]) = MaxCalls
        /\ \A i \in DOMAIN gcalls[l] : gcalls[l][i].ok

\* C10: on a limiter that starts full, Allow called with a fixed gap shorter
\* than 1/limit seconds between consecutive calls returns false at some call:
\* at the second call already.
C10_FasterThanRefillRefused ==
    \A l \in DOMAIN limiters :
        (ShortGap(l) /\ Len(gcalls[l]) >= 2) =>
            \E i \in DOMAIN gcalls[l] : ~gcalls[l][i].ok

\* Calls a positive time apart, less than the refill interval: the first
\* returned true, the second false.
C10_Witness ==
    \E l \in DOMAIN limiters :
        /\ ShortGap(l)
        /\ gap > 0
        /\ Len(gcalls[l]) >= 2
        /\ gcalls[l][1].ok
        /\ ~gcalls[l][2].ok

\* C11: a request that is rejected (429) has caused exactly one
\* NotifyRateLimit call, with the configured limit as expected value and the
\* count its own TrackRequest call returned as received value; a request that
\* is forwarded has caused no NotifyRateLimit call and no POST.
C11_OneNotifyPerRejection ==
    /\ \A i \in DOMAIN response :
          LET r == response[i]
          IN /\ r.status = "429" =>
                   /\ r.notifies = 1
                   /\ r.args = <<[expectedRPS |-> RateLimit,
                                  receivedRPS |-> r.observed]>>
             /\ r.forwards = 1 =>
                   /\ r.notifies = 0
                   /\ r.args = <<>>
                   /\ r.posts = <<>>
    /\ \A t \in Threads :
          pc[t] = "Forward" => out[t].notifies = 0 /\ out[t].posts = <<>>

\* A request that observed more than the limit was rejected after one
\* NotifyRateLimit call that posted the limit and the observed count.
C11_Witness ==
    \E i \in DOMAIN response :
        /\ response[i].status = "429"
        /\ response[i].notifies = 1
        /\ response[i].observed > RateLimit
        /\ response[i].posts = <<[limit_expected_rps |-> RateLimit,
                                  limit_exceeded_rps |-> response[i].observed]>>

\* C12: with the webhook URL unset, no handler ever makes a POST,
\* NotifyRateLimit returns nil every time it is called, and a request the
\* limiter refused still gets 429.
C12_UnsetWebhookIsNoOp ==
    WebhookURL = "" =>
        /\ \A t \in Threads :
              /\ out[t].posts = <<>>
              /\ \A j \in DOMAIN out[t].errs : out[t].errs[j] = "nil"
        /\ \A i \in DOMAIN response :
              /\ response[i].posts = <<>>
              /\ \A j \in DOMAIN response[i].errs : response[i].errs[j] = "nil"
              /\ (response[i].gateCalls = 1 /\ ~response[i].allowed)
                    => response[i].status = "429"

\* With the URL unset, a request was rejected with 429 after a
\* NotifyRateLimit call that returned nil and posted nothing.
C12_Witness ==
    /\ WebhookURL = ""
    /\ \E i \in DOMAIN response :
          /\ response[i].status = "429"
          /\ response[i].notifies = 1
          /\ response[i].errs = <<"nil">>
          /\ response[i].posts = <<>>

\* C13: the notification POST of a rejected request is made only after the
\* 429 has been issued to the caller: a handler that has not yet answered its
\* caller has made no POST.
C13_PostAfterResponse ==
    \A t \in Threads : pc[t] # "idle" => out[t].posts = <<>>

\* C14: once Close has returned, the cleanup goroutine begins no further
\* sweep, so that no entry is deleted by a sweep begun after Close: every
\* entry cleanup deleted was deleted by a sweep whose tick was received
\* before Close returned.
C14_NoSweepAfterClose ==
    \A e \in evictions : ~e.closed

\* The host of a peer address: what "host:port" or "[host]:port" is the
\* address of.
IsHostOf(h, addr) ==
    \E port \in {"80"} : addr \in {<<h, ":", port>>, <<"[", h, "]", ":", port>>}

C16_ForwardedOnceState ==
    \A i \in DOMAIN response :
        LET r == response[i]
        IN /\ r.status # "429" => r.forwards = 1
           /\ r.backend \in {"timeout", "error"} =>
                 r.status = "503" /\ r.forwards = 1
           /\ r.backend = "ok" => r.status = "200"

\* C16 (frame part): the step in which a handler forwards its request and
\* answers its caller, whatever the backend did, changes neither map, no
\* tracker and no limiter.
C16_ForwardedOnceFrame ==
    (\E t \in Threads : pc[t] = "Forward" /\ pc'[t] = "idle")
        => UNCHANGED <<clients, requests, limiters, trackers>>

\* C16: every admitted request is forwarded exactly once; a forward that
\* fails by timeout or connection error gives the caller 503, is not
\* retried, and leaves the client's tracker, limiter and map entries as they
\* were.
C16_ForwardOnceOr503 ==
    []C16_ForwardedOnceState /\ [][C16_ForwardedOnceFrame]_vars

\* A forward timed out: the caller got 503 after one forward, and the
\* client's entries are in the maps.
C16_Witness ==
    \E i \in DOMAIN response :
        /\ response[i].backend = "timeout"
        /\ response[i].status = "503"
        /\ response[i].forwards = 1
        /\ clients[response[i].ip] # 0
        /\ requests[response[i].ip] # 0

\* C17: in every state, an identity has a limiter in rl.clients exactly when
\* it has a tracker in rl.requests; an identity with entries has exactly one
\* tracker and one limiter in the maps, and an identity without entries has
\* none (its earlier ones were deleted together).
C17_TrackerAndLimiterTogether ==
    /\ {ip \in IPs : clients[ip] # 0} = {ip \in IPs : requests[ip] # 0}
    /\ \A ip \in IPs :
          IF requests[ip] # 0
          THEN LiveTrackers(ip) = {requests[ip]} /\ LiveLimiters(ip) = {clients[ip]}
          ELSE LiveTrackers(ip) = {} /\ LiveLimiters(ip) = {}

\* One identity had a tracker and a limiter and has lost both to a sweep,
\* while another identity has both of its own.
C17_Witness ==
    \E ip, other \in IPs :
        /\ requests[ip] = 0 /\ clients[ip] = 0
        /\ \E k \in DOMAIN trackers : trackers[k].ip = ip /\ ~trackers[k].live
        /\ \E l \in DOMAIN limiters : limiters[l].ip = ip /\ ~limiters[l].live
        /\ requests[other] # 0 /\ clients[other] # 0

\* The tokens limiter lim has at time t, were it asked then.
TokensAt(lim, t) ==
    Min(lim.burst * OneToken(lim.limit),
        lim.tokens + tokensFromDuration(lim.limit, Max(t - lim.last, 0)))

\* C18: every limiter has capacity 1 and, after any Allow calls and any
\* passage of time, holds at least 0 tokens and at most its capacity, both in
\* what it has stored and in what it has at the present time.
C18_TokensWithinCapacity ==
    \A l \in DOMAIN limiters :
        LET lim == limiters[l]
        IN /\ lim.burst = 1
           /\ 0 <= lim.tokens
           /\ lim.tokens <= lim.burst * OneToken(lim.limit)
           /\ 0 <= TokensAt(lim, now)
           /\ TokensAt(lim, now) <= lim.burst * OneToken(lim.limit)

\* A limiter that was emptied, refused a call, allowed a later one, and now
\* holds a part of a token.
C18_Witness ==
    \E l \in DOMAIN limiters :
        /\ Len(gcalls[l]) >= 3
        /\ ~gcalls[l][2].ok
        /\ gcalls[l][3].ok
        /\ 0 < limiters[l].tokens
        /\ limiters[l].tokens < OneToken(limiters[l].limit)

\* C19: for one client, the windowStart values its successive TrackRequest
\* calls see never decrease, whether "see" is what a call finds on entry or
\* the window it counts its request in: at least one of the two sequences is
\* non-decreasing.
C19_WindowStartMonotonic ==
    \A ip \in IPs :
        \/ \A i, j \in DOMAIN windows[ip] :
              i < j => windows[ip][i].found <= windows[ip][j].found
        \/ \A i, j \in DOMAIN windows[ip] :
              i < j => windows[ip][i].left <= windows[ip][j].left

\* C20: rl.mu is never held while a tracker's mutex is held by the same
\* goroutine or waited for by it: whoever holds rl.mu holds no tracker's
\* mutex, and the cleanup goroutine is not inside its loop over the trackers,
\* where it locks each one, while it holds rl.mu.
C20_RegistryLockNotNested ==
    mu # 0 =>
        /\ \A k \in DOMAIN trackers : trackers[k].mu # mu
        /\ mu = Sweeper => cpc # "body"

\* C21: for every configured limit L >= 1 the refill interval NewRateLimiter
\* computes is exactly 1/L second, that is, L intervals make one second and
\* the limiters refill exactly L tokens per second.
C21_RefillRateIsLimit ==
    RateLimit >= 1 =>
        /\ rateNs.den # 0
        /\ rateNs.den * RateLimit = NsPerSecond
        /\ rateNs.num = RateLimit * rateNs.den

\* The goroutine g that holds a mutex is at a step it can take without
\* waiting for any mutex: a handler inside GetLimiter or inside TrackRequest,
\* the cleanup goroutine inside its loop body. The cleanup goroutine between
\* two keys of its loop holds rl.mu and is about to lock the next tracker,
\* whichever the loop produces.
Running(g) ==
    IF g = Sweeper
    THEN cpc = "body" \/ (cpc = "range" /\ todo = {})
    ELSE pc[g] \in {"GetLimiterLocked", "TrackRequestLocked"}

\* No goroutine that holds a mutex waits for a mutex whose holder waits too.
HoldersRun ==
    /\ mu \in Threads => Running(mu)
    /\ \A k \in DOMAIN trackers : trackers[k].mu # 0 => Running(trackers[k].mu)
    /\ mu = Sweeper =>
          /\ cpc \in {"range", "body"}
          /\ cpc = "range" =>
                \A ip \in todo :
                    LET h == trackers[requests[ip]].mu
                    IN h # 0 => h \in Threads /\ pc[h] = "TrackRequestLocked"

\* C22: request handling and the sweep never deadlock. No holder of a mutex
\* is blocked behind a goroutine that is blocked itself; every handler that
\* took a request is done with it in the end, so it got rl.mu, its
\* GetLimiter returned, it got its tracker's mutex and its TrackRequest
\* returned; and after every tick the cleanup goroutine is back waiting for
\* the next one, so it got rl.mu and every tracker's mutex in turn and its
\* pass came to its end.
C22_NoDeadlock ==
    /\ []HoldersRun
    /\ \A t \in Threads :
          (pc[t] # "idle") ~> (pc[t] = "idle")
    /\ (cleanupTick.C = 1) ~> (cpc = "wait" /\ cleanupTick.C = 0)

\* Two handlers and the cleanup goroutine want mutexes at once: one handler
\* holds a tracker's mutex, the cleanup goroutine holds rl.mu and has that
\* tracker still to lock, and the other handler waits for rl.mu.
C22_Witness ==
    /\ mu = Sweeper
    /\ cpc = "range"
    /\ \E t, u \in Threads :
          /\ pc[t] = "TrackRequestLocked"
          /\ clientIP[t] \in todo
          /\ requests[clientIP[t]] = tracker[t]
          /\ trackers[tracker[t]].mu = t
          /\ pc[u] = "GetLimiter"

====
